---- MODULE Spec2Model ----
(***************************************************************************)
(* Model of the iterative forecasting engine of src/app.py:                *)
(* generate_forecast (the month-by-month prediction loop with its          *)
(* stability guards and its per-step fallback) together with the lookups   *)
(* it makes in county_data and in the county encoding map.                  *)
(*                                                                         *)
(* Numbers.  The code computes with floats; the model computes the same    *)
(* expressions exactly, on decimal numbers.  A decimal is a non-empty      *)
(* sequence d: d[1] is the (possibly negative) floor of the number and     *)
(* d[2], d[3], ... are its fractional digits in base 100, so that          *)
(*      value(d) = d[1] + d[2]/100 + d[3]/100^2 + ...                      *)
(* and no decimal ends with a zero fractional digit (so equal numbers are  *)
(* equal sequences).  Every factor of the code (0.7, 0.95, 1.01, ...) is a *)
(* whole number of hundredths, so every product is exact.                  *)
(*                                                                         *)
(* Dates are day ordinals (a pandas Timestamp plus timedelta(days=n) is    *)
(* ordinal + n); day 0 is 2018-01-01.                                      *)
(***************************************************************************)
EXTENDS Integers, Sequences, FiniteSets, TLC

\* ---------------------------------------------------------------- bounds
MaxHorizon == 2
MaxHistLen == 3

\* values a historical EV total may take, the example series of the
\* specification, and the values the regressor may return
HistVals == {0, 100}
ExampleHistory == <<1000, 1050, 1100>>
RawInts == {-50, 0, 50, 70, 100, 130, 150, 200, 1150, 1300}
Counties == {"King", "Ghost", "Unencoded"}
\* the readings of the clock
Times == {1, 2}

\* ------------------------------------------------------ decimal numbers
Limb(d, i) == IF i <= Len(d) THEN d[i] ELSE 0

RECURSIVE Norm(_)
Norm(d) ==
    IF Len(d) > 1 /\ d[Len(d)] = 0 THEN Norm(SubSeq(d, 1, Len(d) - 1)) ELSE d

DInt(n) == <<n>>

RECURSIVE DCmpFrom(_, _, _)
DCmpFrom(a, b, i) ==
    IF i > Len(a) /\ i > Len(b) THEN 0
    ELSE IF Limb(a, i) < Limb(b, i) THEN -1
    ELSE IF Limb(a, i) > Limb(b, i) THEN 1
    ELSE DCmpFrom(a, b, i + 1)

\* -1, 0 or 1 as a is below, equal to or above b (the operands are
\* evaluated once, by binding them)
DCmp(a, b) == CHOOSE r \in {DCmpFrom(x[1], x[2], 1) : x \in {<<a, b>>}} : TRUE

DLess(a, b) == DCmp(a, b) = -1
DLeq(a, b) == DCmp(a, b) # 1
DMax(a, b) == IF DLess(a, b) THEN b ELSE a

\* carry out of fractional digit i when d is multiplied by the natural c
RECURSIVE Carry(_, _, _)
Carry(d, c, i) ==
    IF i > Len(d) THEN 0 ELSE (c * d[i] + Carry(d, c, i + 1)) \div 100

MulDigits(d, c) ==
    LET top == c * d[1] + Carry(d, c, 2)
        frac == [i \in 1..(Len(d) - 1) |->
                    (c * d[i + 1] + Carry(d, c, i + 2)) % 100]
    IN  Norm(<<top \div 100, top % 100>> \o frac)

\* d * c / 100: the factor c is a number of hundredths (0.95 is 95)
MulPct(d, c) == CHOOSE r \in {MulDigits(x, c) : x \in {d}} : TRUE

\* borrow into fractional digit i-1 when b is subtracted from a
RECURSIVE Borrow(_, _, _)
Borrow(a, b, i) ==
    IF i > Len(a) /\ i > Len(b) THEN 0
    ELSE IF Limb(a, i) - Limb(b, i) - Borrow(a, b, i + 1) < 0 THEN 1 ELSE 0

SubDigits(a, b) ==
    LET n == IF Len(a) > Len(b) THEN Len(a) ELSE Len(b)
    IN  Norm([i \in 1..n |->
                IF i = 1 THEN a[1] - b[1] - Borrow(a, b, 2)
                ELSE (Limb(a, i) - Limb(b, i) - Borrow(a, b, i + 1)) % 100])

DSub(a, b) == CHOOSE r \in {SubDigits(x[1], x[2]) : x \in {<<a, b>>}} : TRUE

Last(s) == s[Len(s)]

\* ------------------------------------------------------------ calendar
\* length of the month with index mi, month 0 being January 2018
DaysInMonth(mi) ==
    LET m == (mi % 12) + 1
        y == 2018 + (mi \div 12)
    IN  IF m = 2 THEN (IF y % 4 = 0 THEN 29 ELSE 28)
        ELSE IF m \in {4, 6, 9, 11} THEN 30 ELSE 31

RECURSIVE MonthIndexFrom(_, _)
MonthIndexFrom(day, mi) ==
    IF day < DaysInMonth(mi) THEN mi
    ELSE MonthIndexFrom(day - DaysInMonth(mi), mi + 1)

YearOf(day) == 2018 + (MonthIndexFrom(day, 0) \div 12)
MonthOf(day) == (MonthIndexFrom(day, 0) % 12) + 1

RECURSIVE MaxDate(_)
MaxDate(ds) ==
    IF Len(ds) = 1 THEN ds[1]
    ELSE LET r == MaxDate(Tail(ds)) IN IF ds[1] > r THEN ds[1] ELSE r

RECURSIVE MinDate(_)
MinDate(ds) ==
    IF Len(ds) = 1 THEN ds[1]
    ELSE LET r == MinDate(Tail(ds)) IN IF ds[1] < r THEN ds[1] ELSE r

\* ------------------------------------------------------------- state
VARIABLES
    county_data,        \* county name -> historical_data (load_county_data)
    pc,                 \* "idle", "loop", "returned" or "raised"
    county_name,        \* arguments of the running call
    model,              \* TRUE when a regressor was passed, FALSE for None
    forecast_months,
    latest_date,
    base_months,
    month_ahead,        \* loop variable
    current_ev_totals,  \* working series
    predictions,
    prediction_dates,
    model_input,        \* feature row last handed to model.predict
    step_log,           \* what happened at each step of the loop
    forecast_result,    \* value returned by the call
    error,              \* message of the ValueError the call raised
    selected_county,    \* main: the county chosen in the selectbox, "" for none
    session_state,      \* st.session_state, a dictionary
    displayed,          \* results shown by display_forecast_results in this rerun
    safe_result,        \* what safe_generate_forecast gave back to main
    ui_pc               \* where the session is: "ready", "call", "after_call", "rerun"

vars == <<county_data, pc, county_name, model, forecast_months, latest_date,
          base_months, month_ahead, current_ev_totals, predictions,
          prediction_dates, model_input, step_log, forecast_result, error,
          selected_county, session_state, displayed, safe_result, ui_pc>>

\* the variables of main and of the wrapper safe_generate_forecast
ui_vars == <<selected_county, session_state, displayed, safe_result, ui_pc>>

\* no DataFrame built yet
NoInput == <<>>
NoResult == [county |-> "", predicted_values |-> <<>>,
             prediction_dates |-> <<>>, latest_historical_value |-> <<0>>,
             latest_historical_date |-> 0, total_growth |-> <<0>>,
             avg_monthly_growth |-> [num |-> <<0>>, den |-> 1],
             growth_percentage |-> [num |-> <<0>>, den |-> <<1>>],
             forecast_months |-> 0, historical_data_points |-> 0,
             prediction_date |-> 0]

\* an empty st.session_state, and safe_generate_forecast not called yet
EmptySession == [k \in {} |-> NoResult]
NotCalled == [kind |-> "pending", value |-> NoResult]

\* a fresh session in which nothing was selected
UIInit ==
    /\ selected_county = ""
    /\ session_state = EmptySession
    /\ displayed = <<>>
    /\ safe_result = NotCalled
    /\ ui_pc = "ready"

\* ------------------------------------------------- data and lookups
AllSeqs(S, n) == UNION {[1..k -> S] : k \in 0..n}
Histories == AllSeqs(HistVals, MaxHistLen) \cup {ExampleHistory}
FirstDates == {30, 45}

\* one row per month, already sorted by date (load_county_data)
HistoricalData(h, first) ==
    [ev_totals |-> h, dates |-> [i \in 1..Len(h) |-> first + 31 * (i - 1)]]

\* county_encoding_map of get_county_encoding_map: "Unencoded" has data but
\* no code, "Ghost" has neither; "Pierce" and "Island" have both
county_encoding_map == ("King" :> 7) @@ ("Pierce" :> 12) @@ ("Island" :> 3)

\* county_data.get(name); None when the county is not a key
CountyFound(name, data) == name \in DOMAIN data
get_county_info(name, data) == data[name]

\* variant that gives a county without entry the code 0 instead of None
get_county_encoding_Default(name) ==
    IF name \in DOMAIN county_encoding_map THEN county_encoding_map[name]
    ELSE 0

get_county_encoding(name) ==
    IF name \in DOMAIN county_encoding_map THEN county_encoding_map[name]
    ELSE -1

\* df['Date'].min(): the earliest date of the whole data set
EarliestDate ==
    MinDate(<<40>> \o county_data["King"].dates)

Init ==
    /\ \E h \in Histories, first \in FirstDates :
          county_data = [c \in {"King", "Unencoded"} |->
                            IF c = "King" THEN HistoricalData(h, first)
                            ELSE HistoricalData(ExampleHistory, 40)]
    /\ pc = "idle"
    /\ county_name = ""
    /\ model = FALSE
    /\ forecast_months = 0
    /\ latest_date = 0
    /\ base_months = 0
    /\ month_ahead = 0
    /\ current_ev_totals = <<>>
    /\ predictions = <<>>
    /\ prediction_dates = <<>>
    /\ model_input = NoInput
    /\ step_log = <<>>
    /\ forecast_result = NoResult
    /\ error = ""
    /\ UIInit

\* ------------------------------------------------------ the forecast loop
\* variant that counts the months as whole 30-day spans between the dates
BaseMonths_ByDays(latest, earliest) == (latest - earliest) \div 30

\* base_months of generate_forecast; when the CSV cannot be read the start
\* date is taken to be 2018-01-01 (day 0)
BaseMonths(latest, earliest) ==
    (YearOf(latest) - YearOf(earliest)) * 12 + (MonthOf(latest) - MonthOf(earliest))

\* --------------------------------------------------- feature engineering
\* A quotient is kept as the pair of its exact numerator and denominator;
\* the value 0.0 of a feature that is not computed is 0/1.
Quot(n, d) == [num |-> n, den |-> d]
ZeroQuot == Quot(<<0>>, <<1>>)

DAdd(a, b) == DSub(a, DSub(<<0>>, b))
DTimes(d, n) == MulPct(d, 100 * n)

RECURSIVE DSum(_)
DSum(s) == IF Len(s) = 0 THEN <<0>> ELSE DAdd(s[1], DSum(Tail(s)))

\* sum of x*y over the points of y, x being the 0-based index
RECURSIVE SumXY(_, _)
SumXY(y, i) ==
    IF i > Len(y) THEN <<0>> ELSE DAdd(DTimes(y[i], i - 1), SumXY(y, i + 1))

RECURSIVE SumTo(_)
SumTo(n) == IF n <= 0 THEN 0 ELSE n + SumTo(n - 1)

RECURSIVE SumSqTo(_)
SumSqTo(n) == IF n <= 0 THEN 0 ELSE n * n + SumSqTo(n - 1)

\* variant that takes the slope of the line through the two end points
PolyfitSlope_EndToEnd(y) ==
    Quot(DSub(y[Len(y)], y[1]), DInt(Len(y) - 1))

\* np.polyfit(x, y, 1)[0] for x = 0, 1, ..., Len(y) - 1: the least-squares
\* slope (n*Sxy - Sx*Sy) / (n*Sxx - Sx*Sx)
PolyfitSlope(y) ==
    LET n == Len(y)
        sx == SumTo(n - 1)
        sxx == SumSqTo(n - 1)
    IN  Quot(DSub(DTimes(SumXY(y, 1), n), DTimes(DSum(y), sx)),
             DInt(n * sxx - sx * sx))

\* np.mean of a list
Mean(s) == Quot(DSum(s), DInt(Len(s)))

\* variant that takes the first n elements
LastN_FromStart(s, n) == SubSeq(s, 1, IF Len(s) > n THEN n ELSE Len(s))

\* the slice s[-n:], which is the whole list when it has fewer than n elements
LastN(s, n) == SubSeq(s, IF Len(s) > n THEN Len(s) - n + 1 ELSE 1, Len(s))
Min(a, b) == IF a < b THEN a ELSE b

\* variant of the feature row with lag1 and lag2 exchanged
FeatureData_Reordered(series, months_since_start, county_encoded) ==
    LET n == Len(series) IN
    << [name |-> "months_since_start", value |-> months_since_start],
       [name |-> "county_encoded", value |-> county_encoded],
       [name |-> "ev_total_lag2", value |-> series[n - 1]],
       [name |-> "ev_total_lag1", value |-> series[n]],
       [name |-> "ev_total_lag3", value |-> series[n - 2]],
       [name |-> "ev_total_roll_mean_3", value |-> Mean(LastN(series, 3))],
       [name |-> "ev_total_pct_change_1", value |-> ZeroQuot],
       [name |-> "ev_total_pct_change_3", value |-> ZeroQuot],
       [name |-> "ev_growth_slope", value |-> ZeroQuot] >>

\* the feature row built inside the loop from the working series (of at
\* least 3 points), in the column order of the DataFrame
FeatureData(series, months_since_start, county_encoded) ==
    LET n == Len(series)
        ev_total_pct_change_1 ==
            IF n >= 2 /\ series[n - 1] # <<0>>
            THEN Quot(DSub(series[n], series[n - 1]), series[n - 1])
            ELSE ZeroQuot
        ev_total_pct_change_3 ==
            IF n >= 4 /\ series[n - 3] # <<0>>
            THEN Quot(DSub(series[n], series[n - 3]), series[n - 3])
            ELSE ZeroQuot
        recent_points == Min(6, n)
        slope == IF recent_points > 1
                 THEN PolyfitSlope(LastN(series, recent_points))
                 ELSE ZeroQuot
    IN
    << [name |-> "months_since_start", value |-> months_since_start],
       [name |-> "county_encoded", value |-> county_encoded],
       [name |-> "ev_total_lag1", value |-> series[n]],
       [name |-> "ev_total_lag2", value |-> series[n - 1]],
       [name |-> "ev_total_lag3", value |-> series[n - 2]],
       [name |-> "ev_total_roll_mean_3", value |-> Mean(LastN(series, 3))],
       [name |-> "ev_total_pct_change_1", value |-> ev_total_pct_change_1],
       [name |-> "ev_total_pct_change_3", value |-> ev_total_pct_change_3],
       [name |-> "ev_growth_slope", value |-> slope] >>

\* calculate_feature_engineering_values raises ValueError on fewer than 3
\* points; otherwise it returns the 7 engineered values
FeatureEngineeringRaises_Two(historical_data) == Len(historical_data.ev_totals) < 2

FeatureEngineeringRaises(historical_data) == Len(historical_data.ev_totals) < 3

\* variant that divides without looking at the divisor
calculate_feature_engineering_values_Unguarded(historical_data) ==
    LET ev_totals == historical_data.ev_totals
        n == Len(ev_totals)
        recent_points == Min(6, n)
    IN  [ev_total_lag1 |-> IF n >= 1 THEN DInt(ev_totals[n]) ELSE <<0>>,
         ev_total_lag2 |-> IF n >= 2 THEN DInt(ev_totals[n - 1]) ELSE <<0>>,
         ev_total_lag3 |-> IF n >= 3 THEN DInt(ev_totals[n - 2]) ELSE <<0>>,
         ev_total_roll_mean_3 |->
            Mean([i \in 1..Len(LastN(ev_totals, 3)) |->
                     DInt(LastN(ev_totals, 3)[i])]),
         ev_total_pct_change_1 |->
            IF n >= 2
            THEN Quot(DInt(ev_totals[n] - ev_totals[n - 1]), DInt(ev_totals[n - 1]))
            ELSE ZeroQuot,
         ev_total_pct_change_3 |->
            IF n >= 4
            THEN Quot(DInt(ev_totals[n] - ev_totals[n - 3]), DInt(ev_totals[n - 3]))
            ELSE ZeroQuot,
         ev_growth_slope |->
            IF n >= 3
            THEN (IF recent_points > 1
                  THEN PolyfitSlope([i \in 1..recent_points |->
                                       DInt(LastN(ev_totals, recent_points)[i])])
                  ELSE ZeroQuot)
            ELSE ZeroQuot]

calculate_feature_engineering_values(historical_data) ==
    LET ev_totals == historical_data.ev_totals
        n == Len(ev_totals)
        recent_points == Min(6, n)
    IN  [ev_total_lag1 |-> IF n >= 1 THEN DInt(ev_totals[n]) ELSE <<0>>,
         ev_total_lag2 |-> IF n >= 2 THEN DInt(ev_totals[n - 1]) ELSE <<0>>,
         ev_total_lag3 |-> IF n >= 3 THEN DInt(ev_totals[n - 2]) ELSE <<0>>,
         ev_total_roll_mean_3 |->
            Mean([i \in 1..Len(LastN(ev_totals, 3)) |->
                     DInt(LastN(ev_totals, 3)[i])]),
         ev_total_pct_change_1 |->
            IF n >= 2 /\ ev_totals[n - 1] # 0
            THEN Quot(DInt(ev_totals[n] - ev_totals[n - 1]), DInt(ev_totals[n - 1]))
            ELSE ZeroQuot,
         ev_total_pct_change_3 |->
            IF n >= 4 /\ ev_totals[n - 3] # 0
            THEN Quot(DInt(ev_totals[n] - ev_totals[n - 3]), DInt(ev_totals[n - 3]))
            ELSE ZeroQuot,
         ev_growth_slope |->
            IF n >= 3
            THEN (IF recent_points > 1
                  THEN PolyfitSlope([i \in 1..recent_points |->
                                       DInt(LastN(ev_totals, recent_points)[i])])
                  ELSE ZeroQuot)
            ELSE ZeroQuot]

\* prepare_model_input raises ValueError instead of returning a row
PrepareModelInputRaises(name, data) ==
    \/ ~CountyFound(name, data)
    \/ get_county_encoding(name) = -1
    \/ Len(get_county_info(name, data).dates) < 3
    \/ FeatureEngineeringRaises(get_county_info(name, data))

\* variant that leaves forecast_months out of months_since_start
prepare_model_input_NoOffset(name, data, months, csv_ok) ==
    LET historical_data == get_county_info(name, data)
        latest == MaxDate(historical_data.dates)
        months_since_start ==
            BaseMonths(latest, IF csv_ok THEN EarliestDate ELSE 0)
        feature_values == calculate_feature_engineering_values(historical_data)
    IN
    << [name |-> "months_since_start", value |-> months_since_start],
       [name |-> "county_encoded", value |-> get_county_encoding(name)],
       [name |-> "ev_total_lag1", value |-> feature_values.ev_total_lag1],
       [name |-> "ev_total_lag2", value |-> feature_values.ev_total_lag2],
       [name |-> "ev_total_lag3", value |-> feature_values.ev_total_lag3],
       [name |-> "ev_total_roll_mean_3", value |-> feature_values.ev_total_roll_mean_3],
       [name |-> "ev_total_pct_change_1", value |-> feature_values.ev_total_pct_change_1],
       [name |-> "ev_total_pct_change_3", value |-> feature_values.ev_total_pct_change_3],
       [name |-> "ev_growth_slope", value |-> feature_values.ev_growth_slope] >>

\* the one-row DataFrame returned by prepare_model_input
prepare_model_input(name, data, months, csv_ok) ==
    LET historical_data == get_county_info(name, data)
        latest == MaxDate(historical_data.dates)
        months_since_start ==
            BaseMonths(latest, IF csv_ok THEN EarliestDate ELSE 0) + months
        feature_values == calculate_feature_engineering_values(historical_data)
    IN
    << [name |-> "months_since_start", value |-> months_since_start],
       [name |-> "county_encoded", value |-> get_county_encoding(name)],
       [name |-> "ev_total_lag1", value |-> feature_values.ev_total_lag1],
       [name |-> "ev_total_lag2", value |-> feature_values.ev_total_lag2],
       [name |-> "ev_total_lag3", value |-> feature_values.ev_total_lag3],
       [name |-> "ev_total_roll_mean_3", value |-> feature_values.ev_total_roll_mean_3],
       [name |-> "ev_total_pct_change_1", value |-> feature_values.ev_total_pct_change_1],
       [name |-> "ev_total_pct_change_3", value |-> feature_values.ev_total_pct_change_3],
       [name |-> "ev_growth_slope", value |-> feature_values.ev_growth_slope] >>

\* variants of the first guard that let a too low, or a too high, first
\* prediction through
FirstGuard_KeepsLow(prediction, current_value) ==
    IF DLess(MulPct(current_value, 150), prediction) THEN MulPct(current_value, 110)
    ELSE prediction

FirstGuard_KeepsHigh(prediction, current_value) ==
    IF DLess(prediction, MulPct(current_value, 70)) THEN MulPct(current_value, 95)
    ELSE prediction

\* first prediction: keep it within reach of the current value
\* variant whose correction of a too high first prediction is 2 * current_value
FirstGuard_Overshoot(prediction, current_value) ==
    IF DLess(prediction, MulPct(current_value, 70)) THEN MulPct(current_value, 95)
    ELSE IF DLess(MulPct(current_value, 150), prediction)
    THEN MulPct(current_value, 200)
    ELSE prediction

FirstGuard(prediction, current_value) ==
    IF DLess(prediction, MulPct(current_value, 70)) THEN MulPct(current_value, 95)
    ELSE IF DLess(MulPct(current_value, 150), prediction) THEN MulPct(current_value, 110)
    ELSE prediction

\* variant of the later guard whose upper threshold is 1.2 instead of 1.3
NextGuard_Tight(prediction, prev_prediction) ==
    IF DLess(prediction, MulPct(prev_prediction, 80)) THEN MulPct(prev_prediction, 98)
    ELSE IF DLess(MulPct(prev_prediction, 120), prediction) THEN MulPct(prev_prediction, 105)
    ELSE prediction

\* variant of the later guard with its two clamp factors exchanged
NextGuard_ClampsSwapped(prediction, prev_prediction) ==
    IF DLess(prediction, MulPct(prev_prediction, 80)) THEN MulPct(prev_prediction, 105)
    ELSE IF DLess(MulPct(prev_prediction, 130), prediction) THEN MulPct(prev_prediction, 98)
    ELSE prediction

\* subsequent predictions: reasonable progression from the previous one
NextGuard(prediction, prev_prediction) ==
    IF DLess(prediction, MulPct(prev_prediction, 80)) THEN MulPct(prev_prediction, 98)
    ELSE IF DLess(MulPct(prev_prediction, 130), prediction) THEN MulPct(prev_prediction, 105)
    ELSE prediction

\* variant without the minimum growth assumption
GrowthFloor_Off(prediction, preds) == prediction

\* minimum growth assumption, applied when a prediction already exists
GrowthFloor(prediction, preds) ==
    IF Len(preds) > 0 THEN DMax(prediction, MulPct(Last(preds), 101))
    ELSE prediction

\* prediction = max(0.1, prediction)
MinThreshold(prediction) == DMax(<<0, 10>>, prediction)

\* the whole adjustment of a raw prediction
Adjust(raw_prediction, preds, series) ==
    LET guarded == IF Len(preds) = 0
                   THEN FirstGuard(raw_prediction, Last(series))
                   ELSE NextGuard(raw_prediction, Last(preds))
    IN  MinThreshold(GrowthFloor(guarded, preds))

\* variant of the fallback that always restarts from the historical value
Fallback_FromHistory(preds, ev_totals) == MulPct(DInt(Last(ev_totals)), 101)

\* value recorded by the except branch of the loop
\* variant whose trend after a recorded prediction is flat
Fallback_Flat(preds, ev_totals) ==
    IF Len(preds) > 0 THEN Last(preds)
    ELSE MulPct(DInt(Last(ev_totals)), 101)

Fallback(preds, ev_totals) ==
    IF Len(preds) > 0 THEN MulPct(Last(preds), 102)
    ELSE MulPct(DInt(Last(ev_totals)), 101)

\* variant that counts the steps from 0
PredictionDate_ZeroBased(latest, k) == latest + 30 * (k - 1)

PredictionDate(latest, k) == latest + 30 * k

Historical == get_county_info(county_name, county_data).ev_totals

\* entry of generate_forecast up to the start of the loop
StartForecast(name, m, months, csv_ok) ==
    /\ pc = "idle"
    /\ county_name' = name
    /\ model' = m
    /\ forecast_months' = months
    /\ month_ahead' = 1
    /\ predictions' = <<>>
    /\ prediction_dates' = <<>>
    /\ step_log' = <<>>
    /\ model_input' = NoInput
    /\ forecast_result' = NoResult
    /\ UNCHANGED county_data
    /\ IF ~m
       THEN /\ pc' = "raised"
            /\ error' = "Model is not available for prediction"
            /\ UNCHANGED <<latest_date, base_months, current_ev_totals>>
       ELSE IF ~CountyFound(name, county_data)
       THEN /\ pc' = "raised"
            /\ error' = "County not found in data"
            /\ UNCHANGED <<latest_date, base_months, current_ev_totals>>
       ELSE IF get_county_encoding(name) = -1
       THEN /\ pc' = "raised"
            /\ error' = "Could not find encoding for county"
            /\ UNCHANGED <<latest_date, base_months, current_ev_totals>>
       ELSE LET hd == get_county_info(name, county_data) IN
            IF Len(hd.dates) = 0
            THEN \* max() of an empty list raises ValueError in both branches
                 /\ pc' = "raised"
                 /\ error' = "max() arg is an empty sequence"
                 /\ UNCHANGED <<latest_date, base_months, current_ev_totals>>
            ELSE /\ pc' = "loop"
                 /\ error' = ""
                 /\ latest_date' = MaxDate(hd.dates)
                 /\ base_months' = BaseMonths(MaxDate(hd.dates),
                                       IF csv_ok THEN EarliestDate ELSE 0)
                 /\ current_ev_totals' = [i \in 1..Len(hd.ev_totals) |->
                                              DInt(hd.ev_totals[i])]
    /\ UNCHANGED ui_vars

\* variant in which the working series is the caller's list itself (no
\* .copy()): the accepted value, shown by its whole part, lands in county_data
StepPredict_NoCopy(raw) ==
    /\ pc = "loop"
    /\ month_ahead <= forecast_months
    /\ Len(current_ev_totals) >= 3
    /\ LET prediction == Adjust(raw, predictions, current_ev_totals) IN
         /\ predictions' = Append(predictions, prediction)
         /\ current_ev_totals' = Append(current_ev_totals, prediction)
         /\ step_log' = Append(step_log, [path |-> "predict", raw |-> raw])
         /\ county_data' = [county_data EXCEPT
                               ![county_name].ev_totals = Append(@, prediction[1])]
    /\ model_input' = FeatureData(current_ev_totals, base_months + month_ahead,
                                  get_county_encoding(county_name))
    /\ prediction_dates' = Append(prediction_dates,
                                  PredictionDate(latest_date, month_ahead))
    /\ month_ahead' = month_ahead + 1
    /\ UNCHANGED <<pc, county_name, model, forecast_months,
                   latest_date, base_months, forecast_result, error>>
    /\ UNCHANGED ui_vars

\* one iteration whose try block runs to its end: the regressor answers raw
StepPredict(raw) ==
    /\ pc = "loop"
    /\ month_ahead <= forecast_months
    /\ Len(current_ev_totals) >= 3
    /\ LET prediction == Adjust(raw, predictions, current_ev_totals) IN
         /\ predictions' = Append(predictions, prediction)
         /\ current_ev_totals' = Append(current_ev_totals, prediction)
         /\ step_log' = Append(step_log, [path |-> "predict", raw |-> raw])
    /\ model_input' = FeatureData(current_ev_totals, base_months + month_ahead,
                                  get_county_encoding(county_name))
    /\ prediction_dates' = Append(prediction_dates,
                                  PredictionDate(latest_date, month_ahead))
    /\ month_ahead' = month_ahead + 1
    /\ UNCHANGED <<county_data, pc, county_name, model, forecast_months,
                   latest_date, base_months, forecast_result, error>>
    /\ UNCHANGED ui_vars

\* variant in which the exception of model.predict leaves the loop and
\* reaches the outer handler, which re-raises it
StepPredictFails_Propagates ==
    /\ pc = "loop"
    /\ month_ahead <= forecast_months
    /\ Len(current_ev_totals) >= 3
    /\ pc' = "raised"
    /\ error' = "Error generating forecast for county"
    /\ UNCHANGED <<county_data, county_name, model, forecast_months,
                   latest_date, base_months, month_ahead, current_ev_totals,
                   predictions, prediction_dates, model_input, step_log,
                   forecast_result>>
    /\ UNCHANGED ui_vars

\* variant in which a failed invocation is retried: the failure is logged
\* but the step is not closed
StepPredictFails_Retry ==
    /\ pc = "loop"
    /\ month_ahead <= forecast_months
    /\ Len(current_ev_totals) >= 3
    /\ step_log' = Append(step_log, [path |-> "failed", raw |-> <<0>>])
    /\ model_input' = FeatureData(current_ev_totals, base_months + month_ahead,
                                  get_county_encoding(county_name))
    /\ UNCHANGED <<county_data, pc, county_name, model, forecast_months,
                   latest_date, base_months, month_ahead, current_ev_totals,
                   predictions, prediction_dates, forecast_result, error>>
    /\ UNCHANGED ui_vars

\* one iteration in which model.predict raises: the except branch records
\* the trend-based fallback
StepPredictFails ==
    /\ pc = "loop"
    /\ month_ahead <= forecast_months
    /\ Len(current_ev_totals) >= 3
    /\ predictions' = Append(predictions, Fallback(predictions, Historical))
    /\ step_log' = Append(step_log, [path |-> "failed", raw |-> <<0>>])
    /\ model_input' = FeatureData(current_ev_totals, base_months + month_ahead,
                                  get_county_encoding(county_name))
    /\ prediction_dates' = Append(prediction_dates,
                                  PredictionDate(latest_date, month_ahead))
    /\ month_ahead' = month_ahead + 1
    /\ UNCHANGED <<county_data, pc, county_name, model, forecast_months,
                   latest_date, base_months, current_ev_totals,
                   forecast_result, error>>
    /\ UNCHANGED ui_vars

\* variant in which the ValueError of a too short working series leaves the
\* loop and ends the call
StepInsufficient_Propagates ==
    /\ pc = "loop"
    /\ month_ahead <= forecast_months
    /\ Len(current_ev_totals) < 3
    /\ pc' = "raised"
    /\ error' = "Insufficient historical data for iterative prediction"
    /\ UNCHANGED <<county_data, county_name, model, forecast_months,
                   latest_date, base_months, month_ahead, current_ev_totals,
                   predictions, prediction_dates, model_input, step_log,
                   forecast_result>>
    /\ UNCHANGED ui_vars

\* one iteration on a working series of fewer than 3 points: the ValueError
\* raised in the try block is caught by the same except branch
StepInsufficient ==
    /\ pc = "loop"
    /\ month_ahead <= forecast_months
    /\ Len(current_ev_totals) < 3
    /\ predictions' = Append(predictions, Fallback(predictions, Historical))
    /\ step_log' = Append(step_log, [path |-> "insufficient", raw |-> <<0>>])
    /\ prediction_dates' = Append(prediction_dates,
                                  PredictionDate(latest_date, month_ahead))
    /\ month_ahead' = month_ahead + 1
    /\ UNCHANGED <<county_data, pc, county_name, model, forecast_months,
                   latest_date, base_months, current_ev_totals, model_input,
                   forecast_result, error>>
    /\ UNCHANGED ui_vars

\* the growth metrics and the dictionary returned after the loop; now is the
\* value of datetime.now()
ForecastResult(name, latest_historical, points, months, latest, preds, dates, now) ==
    LET total_growth == IF Len(preds) > 0
                        THEN DSub(Last(preds), latest_historical)
                        ELSE <<0>>
    IN  [county |-> name,
         predicted_values |-> preds,
         prediction_dates |-> dates,
         latest_historical_value |-> latest_historical,
         latest_historical_date |-> latest,
         total_growth |-> total_growth,
         avg_monthly_growth |->
            IF months > 0
            THEN [num |-> total_growth, den |-> months]
            ELSE [num |-> <<0>>, den |-> 1],
         growth_percentage |->
            IF DLess(<<0>>, latest_historical)
            THEN [num |-> MulPct(total_growth, 10000), den |-> latest_historical]
            ELSE [num |-> <<0>>, den |-> <<1>>],
         forecast_months |-> months,
         historical_data_points |-> points,
         prediction_date |-> now]

\* variant whose latest_historical is the last value of the working series
Finish_FromWorkingSeries(now) ==
    /\ pc = "loop"
    /\ month_ahead > forecast_months
    /\ forecast_result' =
          ForecastResult(county_name, Last(current_ev_totals), Len(Historical),
                         forecast_months, latest_date, predictions,
                         prediction_dates, now)
    /\ pc' = "returned"
    /\ UNCHANGED <<county_data, county_name, model, forecast_months,
                   latest_date, base_months, month_ahead, current_ev_totals,
                   predictions, prediction_dates, model_input, step_log, error>>
    /\ UNCHANGED ui_vars

\* after the loop: the result is built and returned
Finish(now) ==
    /\ pc = "loop"
    /\ month_ahead > forecast_months
    /\ forecast_result' =
          ForecastResult(county_name, DInt(Last(Historical)), Len(Historical),
                         forecast_months, latest_date, predictions,
                         prediction_dates, now)
    /\ pc' = "returned"
    /\ UNCHANGED <<county_data, county_name, model, forecast_months,
                   latest_date, base_months, month_ahead, current_ev_totals,
                   predictions, prediction_dates, model_input, step_log, error>>
    /\ UNCHANGED ui_vars

\* the caller is done with the outcome; the locals of the call are gone
Reset ==
    /\ pc \in {"returned", "raised"}
    /\ pc' = "idle"
    /\ county_name' = ""
    /\ model' = FALSE
    /\ forecast_months' = 0
    /\ latest_date' = 0
    /\ base_months' = 0
    /\ month_ahead' = 0
    /\ current_ev_totals' = <<>>
    /\ predictions' = <<>>
    /\ prediction_dates' = <<>>
    /\ model_input' = NoInput
    /\ step_log' = <<>>
    /\ forecast_result' = NoResult
    /\ error' = ""
    /\ UNCHANGED county_data
    /\ UNCHANGED ui_vars

Raws == {DInt(n) : n \in RawInts}

Next ==
    \/ \E name \in Counties, m \in BOOLEAN, months \in (-1)..MaxHorizon,
          csv_ok \in BOOLEAN : StartForecast(name, m, months, csv_ok)
    \/ \E raw \in Raws : StepPredict(raw)
    \/ StepPredictFails
    \/ StepInsufficient
    \/ \E now \in Times : Finish(now)
    \/ Reset

Spec == Init /\ [][Next]_vars

\* ------------------------------------------- several calls in flight
\* Each session of the application runs main in a thread of its own, so
\* calls of generate_forecast overlap. In this specification every variable
\* but county_data is a function of the call: the locals of call p are the
\* values at p. county_data, county_encoding_map and the regressor are the
\* objects shared by the calls. The data file stays readable throughout.
Procs == {1, 2}
CountiesTwo == {"King", "Pierce", "Island", "Ghost"}
RawsTwo == {DInt(100), DInt(1150)}
ShortHistory == <<100, 100>>
PierceHistory == <<0, 100, 100>>

\* the county data the sessions share
SharedData ==
    ("King" :> HistoricalData(ExampleHistory, 45))
        @@ ("Pierce" :> HistoricalData(PierceHistory, 45))
        @@ ("Island" :> HistoricalData(ShortHistory, 45))

InitTwo ==
    /\ county_data = SharedData
    /\ pc = [p \in Procs |-> "idle"]
    /\ county_name = [p \in Procs |-> ""]
    /\ model = [p \in Procs |-> FALSE]
    /\ forecast_months = [p \in Procs |-> 0]
    /\ latest_date = [p \in Procs |-> 0]
    /\ base_months = [p \in Procs |-> 0]
    /\ month_ahead = [p \in Procs |-> 0]
    /\ current_ev_totals = [p \in Procs |-> <<>>]
    /\ predictions = [p \in Procs |-> <<>>]
    /\ prediction_dates = [p \in Procs |-> <<>>]
    /\ model_input = [p \in Procs |-> NoInput]
    /\ step_log = [p \in Procs |-> <<>>]
    /\ forecast_result = [p \in Procs |-> NoResult]
    /\ error = [p \in Procs |-> ""]
    /\ UIInit

\* the message of the ValueError raised before the loop, "" when none is
PreconditionError(name, m, data) ==
    IF ~m THEN "Model is not available for prediction"
    ELSE IF ~CountyFound(name, data) THEN "County not found in data"
    ELSE IF get_county_encoding(name) = -1
    THEN "Could not find encoding for county"
    ELSE IF Len(get_county_info(name, data).dates) = 0
    THEN "max() arg is an empty sequence"
    ELSE ""

\* call p enters generate_forecast and runs up to the start of the loop
StartForecastOf(p, name, m, months, csv_ok) ==
    /\ pc[p] = "idle"
    /\ county_name' = [county_name EXCEPT ![p] = name]
    /\ model' = [model EXCEPT ![p] = m]
    /\ forecast_months' = [forecast_months EXCEPT ![p] = months]
    /\ month_ahead' = [month_ahead EXCEPT ![p] = 1]
    /\ error' = [error EXCEPT ![p] = PreconditionError(name, m, county_data)]
    /\ UNCHANGED <<county_data, predictions, prediction_dates, step_log,
                   model_input, forecast_result>>
    /\ IF PreconditionError(name, m, county_data) # ""
       THEN /\ pc' = [pc EXCEPT ![p] = "raised"]
            /\ UNCHANGED <<latest_date, base_months, current_ev_totals>>
       ELSE LET hd == get_county_info(name, county_data) IN
            /\ pc' = [pc EXCEPT ![p] = "loop"]
            /\ latest_date' = [latest_date EXCEPT ![p] = MaxDate(hd.dates)]
            /\ base_months' = [base_months EXCEPT ![p] =
                                  BaseMonths(MaxDate(hd.dates),
                                             IF csv_ok THEN EarliestDate ELSE 0)]
            /\ current_ev_totals' = [current_ev_totals EXCEPT ![p] =
                                        [i \in 1..Len(hd.ev_totals) |->
                                            DInt(hd.ev_totals[i])]]
    /\ UNCHANGED ui_vars

\* the feature row call p builds at its current step
RowOf(p) ==
    FeatureData(current_ev_totals[p], base_months[p] + month_ahead[p],
                get_county_encoding(county_name[p]))

\* variant in which predictions is one list shared by the calls
StepPredictOf_SharedPredictions(p, raw) ==
    /\ pc[p] = "loop"
    /\ month_ahead[p] <= forecast_months[p]
    /\ Len(current_ev_totals[p]) >= 3
    /\ LET prediction == Adjust(raw, predictions[p], current_ev_totals[p]) IN
         /\ predictions' = [q \in Procs |-> Append(predictions[q], prediction)]
         /\ current_ev_totals' = [current_ev_totals EXCEPT ![p] =
                                     Append(@, prediction)]
    /\ step_log' = [step_log EXCEPT ![p] =
                       Append(@, [path |-> "predict", raw |-> raw,
                                  input |-> RowOf(p)])]
    /\ model_input' = [model_input EXCEPT ![p] = RowOf(p)]
    /\ prediction_dates' = [prediction_dates EXCEPT ![p] =
                               Append(@, PredictionDate(latest_date[p],
                                                        month_ahead[p]))]
    /\ month_ahead' = [month_ahead EXCEPT ![p] = @ + 1]
    /\ UNCHANGED <<county_data, pc, county_name, model, forecast_months,
                   latest_date, base_months, forecast_result, error>>
    /\ UNCHANGED ui_vars

\* variant in which the working series is the caller's list itself (no
\* .copy()): the accepted value, shown by its whole part, lands in county_data
StepPredictOf_NoCopy(p, raw) ==
    /\ pc[p] = "loop"
    /\ month_ahead[p] <= forecast_months[p]
    /\ Len(current_ev_totals[p]) >= 3
    /\ LET prediction == Adjust(raw, predictions[p], current_ev_totals[p]) IN
         /\ predictions' = [predictions EXCEPT ![p] = Append(@, prediction)]
         /\ current_ev_totals' = [current_ev_totals EXCEPT ![p] =
                                     Append(@, prediction)]
         /\ county_data' = [county_data EXCEPT
                               ![county_name[p]].ev_totals =
                                   Append(@, prediction[1])]
    /\ step_log' = [step_log EXCEPT ![p] =
                       Append(@, [path |-> "predict", raw |-> raw,
                                  input |-> RowOf(p)])]
    /\ model_input' = [model_input EXCEPT ![p] = RowOf(p)]
    /\ prediction_dates' = [prediction_dates EXCEPT ![p] =
                               Append(@, PredictionDate(latest_date[p],
                                                        month_ahead[p]))]
    /\ month_ahead' = [month_ahead EXCEPT ![p] = @ + 1]
    /\ UNCHANGED <<pc, county_name, model, forecast_months,
                   latest_date, base_months, forecast_result, error>>
    /\ UNCHANGED ui_vars

\* one iteration of call p whose try block runs to its end; the log keeps
\* the row the regressor was given next to its answer
StepPredictOf(p, raw) ==
    /\ pc[p] = "loop"
    /\ month_ahead[p] <= forecast_months[p]
    /\ Len(current_ev_totals[p]) >= 3
    /\ LET prediction == Adjust(raw, predictions[p], current_ev_totals[p]) IN
         /\ predictions' = [predictions EXCEPT ![p] = Append(@, prediction)]
         /\ current_ev_totals' = [current_ev_totals EXCEPT ![p] =
                                     Append(@, prediction)]
    /\ step_log' = [step_log EXCEPT ![p] =
                       Append(@, [path |-> "predict", raw |-> raw,
                                  input |-> RowOf(p)])]
    /\ model_input' = [model_input EXCEPT ![p] = RowOf(p)]
    /\ prediction_dates' = [prediction_dates EXCEPT ![p] =
                               Append(@, PredictionDate(latest_date[p],
                                                        month_ahead[p]))]
    /\ month_ahead' = [month_ahead EXCEPT ![p] = @ + 1]
    /\ UNCHANGED <<county_data, pc, county_name, model, forecast_months,
                   latest_date, base_months, forecast_result, error>>
    /\ UNCHANGED ui_vars

\* one iteration of call p in which model.predict raises
StepPredictFailsOf(p) ==
    /\ pc[p] = "loop"
    /\ month_ahead[p] <= forecast_months[p]
    /\ Len(current_ev_totals[p]) >= 3
    /\ predictions' = [predictions EXCEPT ![p] =
                          Append(@, Fallback(predictions[p],
                              get_county_info(county_name[p], county_data).ev_totals))]
    /\ step_log' = [step_log EXCEPT ![p] =
                       Append(@, [path |-> "failed", raw |-> <<0>>,
                                  input |-> RowOf(p)])]
    /\ model_input' = [model_input EXCEPT ![p] = RowOf(p)]
    /\ prediction_dates' = [prediction_dates EXCEPT ![p] =
                               Append(@, PredictionDate(latest_date[p],
                                                        month_ahead[p]))]
    /\ month_ahead' = [month_ahead EXCEPT ![p] = @ + 1]
    /\ UNCHANGED <<county_data, pc, county_name, model, forecast_months,
                   latest_date, base_months, current_ev_totals,
                   forecast_result, error>>
    /\ UNCHANGED ui_vars

\* one iteration of call p on a working series of fewer than 3 points
StepInsufficientOf(p) ==
    /\ pc[p] = "loop"
    /\ month_ahead[p] <= forecast_months[p]
    /\ Len(current_ev_totals[p]) < 3
    /\ predictions' = [predictions EXCEPT ![p] =
                          Append(@, Fallback(predictions[p],
                              get_county_info(county_name[p], county_data).ev_totals))]
    /\ step_log' = [step_log EXCEPT ![p] =
                       Append(@, [path |-> "insufficient", raw |-> <<0>>,
                                  input |-> NoInput])]
    /\ prediction_dates' = [prediction_dates EXCEPT ![p] =
                               Append(@, PredictionDate(latest_date[p],
                                                        month_ahead[p]))]
    /\ month_ahead' = [month_ahead EXCEPT ![p] = @ + 1]
    /\ UNCHANGED <<county_data, pc, county_name, model, forecast_months,
                   latest_date, base_months, current_ev_totals, model_input,
                   forecast_result, error>>
    /\ UNCHANGED ui_vars

\* call p builds its result and returns
FinishOf(p, now) ==
    /\ pc[p] = "loop"
    /\ month_ahead[p] > forecast_months[p]
    /\ LET hist == get_county_info(county_name[p], county_data).ev_totals IN
       forecast_result' = [forecast_result EXCEPT ![p] =
          ForecastResult(county_name[p], DInt(Last(hist)), Len(hist),
                         forecast_months[p], latest_date[p], predictions[p],
                         prediction_dates[p], now)]
    /\ pc' = [pc EXCEPT ![p] = "returned"]
    /\ UNCHANGED <<county_data, county_name, model, forecast_months,
                   latest_date, base_months, month_ahead, current_ev_totals,
                   predictions, prediction_dates, model_input, step_log, error>>
    /\ UNCHANGED ui_vars

NextTwo ==
    \E p \in Procs :
        \/ \E name \in CountiesTwo, m \in BOOLEAN, months \in 1..MaxHorizon :
              StartForecastOf(p, name, m, months, TRUE)
        \/ \E raw \in RawsTwo : StepPredictOf(p, raw)
        \/ StepPredictFailsOf(p)
        \/ StepInsufficientOf(p)
        \/ \E now \in Times : FinishOf(p, now)

SpecTwo == InitTwo /\ [][NextTwo]_vars

\* ------------------------------------------- the feature functions
\* The feature engineerer and prepare_model_input are applied to histories
\* of up to MaxSeriesLen points, next to the first step of generate_forecast
\* on the same history.
MaxSeriesLen == 7
SeriesVals == {0, 100, 150}
SeriesRaws == {DInt(100), DInt(200)}

InitFeat ==
    /\ \E h \in AllSeqs(SeriesVals, MaxSeriesLen) :
          county_data = [c \in {"King", "Unencoded"} |->
                            IF c = "King" THEN HistoricalData(h, 45)
                            ELSE HistoricalData(ExampleHistory, 40)]
    /\ pc = "idle"
    /\ county_name = ""
    /\ model = FALSE
    /\ forecast_months = 0
    /\ latest_date = 0
    /\ base_months = 0
    /\ month_ahead = 0
    /\ current_ev_totals = <<>>
    /\ predictions = <<>>
    /\ prediction_dates = <<>>
    /\ model_input = NoInput
    /\ step_log = <<>>
    /\ forecast_result = NoResult
    /\ error = ""
    /\ UIInit

\* a call of calculate_feature_engineering_values on the history of a county
CallFeatureEngineering(name) ==
    /\ pc = "idle"
    /\ CountyFound(name, county_data)
    /\ county_name' = name
    /\ IF FeatureEngineeringRaises(get_county_info(name, county_data))
       THEN /\ pc' = "raised"
            /\ error' = "Error calculating feature engineering values"
            /\ UNCHANGED model_input
       ELSE /\ pc' = "features"
            /\ error' = ""
            /\ model_input' = calculate_feature_engineering_values(
                                  get_county_info(name, county_data))
    /\ UNCHANGED <<county_data, model, forecast_months, latest_date,
                   base_months, month_ahead, current_ev_totals, predictions,
                   prediction_dates, step_log, forecast_result>>
    /\ UNCHANGED ui_vars

\* a call of prepare_model_input
CallPrepareModelInput(name, months, csv_ok) ==
    /\ pc = "idle"
    /\ county_name' = name
    /\ forecast_months' = months
    /\ IF PrepareModelInputRaises(name, county_data)
       THEN /\ pc' = "raised"
            /\ error' = "Error preparing model input"
            /\ UNCHANGED model_input
       ELSE /\ pc' = "prepared"
            /\ error' = ""
            /\ model_input' = prepare_model_input(name, county_data, months, csv_ok)
    /\ UNCHANGED <<county_data, model, latest_date, base_months, month_ahead,
                   current_ev_totals, predictions, prediction_dates, step_log,
                   forecast_result>>
    /\ UNCHANGED ui_vars

NextFeat ==
    \/ \E name \in {"King"} : CallFeatureEngineering(name)
    \/ \E name \in Counties, months \in 1..MaxHorizon, csv_ok \in BOOLEAN :
          CallPrepareModelInput(name, months, csv_ok)
    \/ \E csv_ok \in BOOLEAN : StartForecast("King", TRUE, 1, csv_ok)
    \/ \E raw \in SeriesRaws : StepPredict(raw)
    \/ StepPredictFails

SpecFeat == InitFeat /\ [][NextFeat]_vars

\* ------------------------------------------------- the session of main
\* Streamlit runs main anew after every interaction (a rerun). A rerun reads
\* the selectbox, loads the model and, when a county is selected and the
\* model is loaded, handles the two buttons around st.session_state.
UICounties == {"King", "Island", "Unencoded"}
UIRaws == {DInt(1150)}

UIData ==
    ("King" :> HistoricalData(ExampleHistory, 45))
        @@ ("Island" :> HistoricalData(ShortHistory, 45))
        @@ ("Unencoded" :> HistoricalData(ExampleHistory, 40))

InitUI ==
    /\ county_data = UIData
    /\ pc = "idle"
    /\ county_name = ""
    /\ model = FALSE
    /\ forecast_months = 0
    /\ latest_date = 0
    /\ base_months = 0
    /\ month_ahead = 0
    /\ current_ev_totals = <<>>
    /\ predictions = <<>>
    /\ prediction_dates = <<>>
    /\ model_input = NoInput
    /\ step_log = <<>>
    /\ forecast_result = NoResult
    /\ error = ""
    /\ UIInit

\* 'forecast_result' in st.session_state and st.session_state['forecast_result']
HasResult(session) == "forecast_result" \in DOMAIN session

\* the results display_forecast_results is called with
Shown(session, selected) ==
    IF HasResult(session) /\ session["forecast_result"].county = selected
    THEN <<session["forecast_result"]>>
    ELSE <<>>

\* variant that keeps a result of another county in the session
SessionAfterDisplay_KeepsOutdated(session, selected, clear) ==
    IF ~HasResult(session) THEN session
    ELSE IF session["forecast_result"].county = selected
    THEN (IF clear THEN EmptySession ELSE session)
    ELSE session

\* st.session_state after the display section: the result is deleted when
\* Clear Results was clicked or when it belongs to another county
SessionAfterDisplay(session, selected, clear) ==
    IF ~HasResult(session) THEN session
    ELSE IF session["forecast_result"].county = selected
    THEN (IF clear THEN EmptySession ELSE session)
    ELSE EmptySession

\* the locals of a finished call of generate_forecast are gone
CallLocalsGone ==
    /\ pc' = "idle"
    /\ county_name' = ""
    /\ forecast_months' = 0
    /\ latest_date' = 0
    /\ base_months' = 0
    /\ month_ahead' = 0
    /\ current_ev_totals' = <<>>
    /\ predictions' = <<>>
    /\ prediction_dates' = <<>>
    /\ model_input' = NoInput
    /\ step_log' = <<>>
    /\ forecast_result' = NoResult
    /\ error' = ""

\* a rerun of main up to its end or up to the call of safe_generate_forecast.
\* selected is the selectbox value, m tells whether load_model succeeded,
\* click is the button that caused the rerun ("none" for any other cause)
RerunBody(selected, m, click) ==
    /\ selected_county' = selected
    /\ model' = m
    /\ safe_result' = NotCalled
    /\ UNCHANGED <<county_data, pc, county_name, forecast_months, latest_date,
                   base_months, month_ahead, current_ev_totals, predictions,
                   prediction_dates, model_input, step_log, forecast_result,
                   error>>
    /\ IF selected = "" \/ ~m
       THEN /\ displayed' = <<>>
            /\ ui_pc' = "ready"
            /\ UNCHANGED session_state
       ELSE IF click = "generate"
       THEN /\ displayed' = <<>>
            /\ ui_pc' = "call"
            /\ UNCHANGED session_state
       ELSE /\ displayed' = Shown(session_state, selected)
            /\ session_state' = SessionAfterDisplay(session_state, selected,
                                                    click = "clear")
            /\ ui_pc' = IF click = "clear" /\ Shown(session_state, selected) # <<>>
                        THEN "rerun" ELSE "ready"

\* the user changes the selection, or something else makes the script run
\* again
Rerun(selected, m) ==
    /\ ui_pc = "ready"
    /\ RerunBody(selected, m, "none")

\* the user clicks Generate Forecast, which the last run rendered
ClickGenerate(m) ==
    /\ ui_pc = "ready"
    /\ selected_county # ""
    /\ model
    /\ RerunBody(selected_county, m, "generate")

\* the user clicks Clear Results, rendered under the displayed result
ClickClear(m) ==
    /\ ui_pc = "ready"
    /\ displayed # <<>>
    /\ RerunBody(selected_county, m, "clear")

\* the run that st.rerun() asked for
RerunAfterClear(m) ==
    /\ ui_pc = "rerun"
    /\ RerunBody(selected_county, m, "none")

\* safe_generate_forecast calls generate_forecast with the selection, the
\* loaded model and the value of the slider
CallFromMain(months, csv_ok) ==
    /\ ui_pc = "call"
    /\ StartForecast(selected_county, model, months, csv_ok)

\* variant of the wrapper that lets the ValueError through
SafeGenerateForecastReturns_Reraises ==
    /\ ui_pc = "call"
    /\ pc \in {"returned", "raised"}
    /\ safe_result' = IF pc = "returned"
                      THEN [kind |-> "value", value |-> forecast_result]
                      ELSE [kind |-> "raised", value |-> NoResult]
    /\ ui_pc' = "after_call"
    /\ UNCHANGED <<county_data, pc, county_name, model, forecast_months,
                   latest_date, base_months, month_ahead, current_ev_totals,
                   predictions, prediction_dates, model_input, step_log,
                   forecast_result, error, selected_county, session_state,
                   displayed>>

\* the wrapper of handle_prediction_errors hands on the value returned by
\* generate_forecast, or None when generate_forecast raised
SafeGenerateForecastReturns ==
    /\ ui_pc = "call"
    /\ pc \in {"returned", "raised"}
    /\ safe_result' = IF pc = "returned"
                      THEN [kind |-> "value", value |-> forecast_result]
                      ELSE [kind |-> "None", value |-> NoResult]
    /\ ui_pc' = "after_call"
    /\ UNCHANGED <<county_data, pc, county_name, model, forecast_months,
                   latest_date, base_months, month_ahead, current_ev_totals,
                   predictions, prediction_dates, model_input, step_log,
                   forecast_result, error, selected_county, session_state,
                   displayed>>

\* main after the call: a result is stored in the session, then the
\* display section runs (Clear Results was not clicked in this run)
AfterCall ==
    /\ ui_pc = "after_call"
    /\ LET stored == IF safe_result.kind = "value"
                     THEN [k \in {"forecast_result"} |-> safe_result.value]
                     ELSE session_state
       IN  /\ displayed' = Shown(stored, selected_county)
           /\ session_state' = SessionAfterDisplay(stored, selected_county, FALSE)
    /\ ui_pc' = "ready"
    /\ CallLocalsGone
    /\ UNCHANGED <<county_data, model, selected_county, safe_result>>

NextUI ==
    \/ \E selected \in UICounties \cup {""}, m \in BOOLEAN : Rerun(selected, m)
    \/ \E m \in BOOLEAN : ClickGenerate(m)
    \/ \E m \in BOOLEAN : ClickClear(m)
    \/ \E m \in BOOLEAN : RerunAfterClear(m)
    \/ \E months \in 1..MaxHorizon, csv_ok \in BOOLEAN : CallFromMain(months, csv_ok)
    \/ \E raw \in UIRaws : StepPredict(raw)
    \/ StepPredictFails
    \/ StepInsufficient
    \/ \E now \in Times : Finish(now)
    \/ SafeGenerateForecastReturns
    \/ AfterCall

SpecUI == InitUI /\ [][NextUI]_vars

\* ------------------------------------------------------------- claims
\* the call in progress (or just ended) passed every check made before
\* the loop and has at least 3 historical points
ValidRequest ==
    /\ pc # "idle"
    /\ model
    /\ CountyFound(county_name, county_data)
    /\ get_county_encoding(county_name) # -1
    /\ Len(Historical) >= 3

\* the last historical value and date, read from the caller's data
LastHistorical == DInt(Last(Historical))
LastHistoricalDate == Last(get_county_info(county_name, county_data).dates)

Tenth == <<0, 10>>

PathsTaken == {step_log[i].path : i \in 1..Len(step_log)}

\* C1: a returned forecast for a valid request with horizon >= 1 has exactly
\* `horizon` values and `horizon` dates, the k-th date being the last
\* historical date plus 30*k days, whatever paths its steps took.
C1_FullLengthDates ==
    (pc = "returned" /\ ValidRequest /\ forecast_months >= 1) =>
        /\ Len(forecast_result.predicted_values) = forecast_months
        /\ Len(forecast_result.prediction_dates) = forecast_months
        /\ \A k \in 1..forecast_months :
              forecast_result.prediction_dates[k] = LastHistoricalDate + 30 * k
        /\ \A k \in 1..(forecast_months - 1) :
              forecast_result.prediction_dates[k + 1]
                  = forecast_result.prediction_dates[k] + 30

C1_Witness ==
    /\ pc = "returned" /\ ValidRequest
    /\ forecast_months = MaxHorizon
    /\ {"predict", "failed"} \subseteq PathsTaken

\* C2: every value of a returned forecast is strictly positive, for every
\* history of values >= 0 and every pattern of step failures.
C2_AllPositive ==
    (pc = "returned" /\ ValidRequest) =>
        \A k \in 1..Len(forecast_result.predicted_values) :
            DLess(<<0>>, forecast_result.predicted_values[k])

\* C3: a request on a history of fewer than 3 points fails before any
\* prediction: it raises, records no value and returns no result.
C3_InsufficientRaises ==
    (/\ pc # "idle" /\ model
     /\ CountyFound(county_name, county_data)
     /\ get_county_encoding(county_name) # -1
     /\ Len(Historical) < 3 /\ forecast_months >= 1) =>
        /\ pc # "returned"
        /\ predictions = <<>>
        /\ forecast_result = NoResult

\* C4: at the start of every step the working series is the history
\* followed by every value accepted so far, fallback values included, so
\* that its last element is the previous accepted prediction.
C4_WorkingSeries ==
    (pc = "loop" /\ ValidRequest /\ month_ahead <= forecast_months) =>
        /\ current_ev_totals
              = [i \in 1..Len(Historical) |-> DInt(Historical[i])] \o predictions
        /\ (Len(predictions) > 0 => Last(current_ev_totals) = Last(predictions))

\* C5: a valid request never raises and never stops early, whichever steps
\* fail: every step so far recorded one value, and the returned result has
\* the full length.
C5_NeverAborts ==
    (ValidRequest /\ forecast_months >= 0) =>
        /\ pc # "raised"
        /\ (pc = "loop" =>
              /\ month_ahead <= forecast_months + 1
              /\ Len(predictions) = month_ahead - 1
              /\ Len(prediction_dates) = month_ahead - 1)
        /\ (pc = "returned" =>
              Len(forecast_result.predicted_values) = forecast_months)

C5_Witness ==
    /\ pc = "returned" /\ ValidRequest
    /\ forecast_months = MaxHorizon
    /\ PathsTaken = {"failed"}

\* C6: a step on the fallback path records 1.02 times the last recorded
\* prediction when one exists and 1.01 times the last historical value
\* otherwise, with no guard and no floor.
C6_FallbackValue ==
    pc \in {"loop", "returned"} =>
        \A k \in 1..Len(predictions) :
            step_log[k].path # "predict" =>
                predictions[k] = IF k > 1 THEN MulPct(predictions[k - 1], 102)
                                 ELSE MulPct(LastHistorical, 101)

C6_Witness ==
    /\ pc = "returned" /\ ValidRequest
    /\ Len(predictions) >= 2
    /\ step_log[1].path = "failed" /\ step_log[2].path = "failed"
    /\ LastHistorical = <<100>>
    /\ predictions[1] = <<101>> /\ predictions[2] = <<103, 2>>

\* C7: on a non-fallback step that follows a recorded prediction the accepted
\* value is at least 1.01 times that prediction, whatever the raw output.
C7_GrowthFloor ==
    pc \in {"loop", "returned"} =>
        \A k \in 2..Len(predictions) :
            step_log[k].path = "predict" =>
                DLeq(MulPct(predictions[k - 1], 101), predictions[k])

C7_Witness ==
    /\ pc = "returned"
    /\ Len(predictions) >= 2
    /\ step_log[2].path = "predict"
    /\ DLess(step_log[2].raw, predictions[1])
    /\ predictions[2] = MulPct(predictions[1], 101)

\* C8: on the first step a raw prediction below 0.7*cur is replaced by
\* 0.95*cur (cur = 100, raw = 50 gives 95), subject only to the 0.1 floor.
C8_FirstStepLowClamp ==
    (/\ pc \in {"loop", "returned"} /\ Len(predictions) >= 1
     /\ step_log[1].path = "predict"
     /\ DLess(step_log[1].raw, MulPct(LastHistorical, 70))) =>
        /\ predictions[1] = DMax(Tenth, MulPct(LastHistorical, 95))
        /\ (LastHistorical = <<100>> /\ step_log[1].raw = <<50>>
               => predictions[1] = <<95>>)

C8_Witness ==
    /\ pc = "returned" /\ Len(predictions) >= 1
    /\ step_log[1].path = "predict"
    /\ LastHistorical = <<100>> /\ step_log[1].raw = <<50>>
    /\ predictions[1] = <<95>>

\* C9: on the first step a raw prediction above 1.5*cur is replaced by
\* 1.1*cur (cur = 100, raw = 200 gives 110), subject only to the 0.1 floor.
C9_FirstStepHighClamp ==
    (/\ pc \in {"loop", "returned"} /\ Len(predictions) >= 1
     /\ step_log[1].path = "predict"
     /\ DLess(MulPct(LastHistorical, 150), step_log[1].raw)) =>
        /\ predictions[1] = DMax(Tenth, MulPct(LastHistorical, 110))
        /\ (LastHistorical = <<100>> /\ step_log[1].raw = <<200>>
               => predictions[1] = <<110>>)

C9_Witness ==
    /\ pc = "returned" /\ Len(predictions) >= 1
    /\ step_log[1].path = "predict"
    /\ LastHistorical = <<100>> /\ step_log[1].raw = <<200>>
    /\ predictions[1] = <<110>>

\* step k took the normal path with a raw prediction inside the guard band
InBand(k) ==
    /\ step_log[k].path = "predict"
    /\ IF k = 1
       THEN /\ DLeq(MulPct(LastHistorical, 70), step_log[1].raw)
            /\ DLeq(step_log[1].raw, MulPct(LastHistorical, 150))
       ELSE /\ DLeq(step_log[k].raw, MulPct(predictions[k - 1], 130))
            /\ DLeq(MulPct(predictions[k - 1], 101), step_log[k].raw)

\* C10 (as stated): a raw prediction inside the guard band is accepted
\* unchanged.
C10_InBandUnchanged ==
    pc \in {"loop", "returned"} =>
        \A k \in 1..Len(predictions) :
            InBand(k) => predictions[k] = step_log[k].raw

\* C10 (amended): a raw prediction inside the guard band is accepted
\* unchanged when it is at least 0.1, and is raised to 0.1 otherwise;
\* history [1000, 1050, 1100] with raw outputs 1150, 1300 gives [1150, 1300].
C10_InBandUnchangedAboveFloor ==
    pc \in {"loop", "returned"} =>
        /\ \A k \in 1..Len(predictions) :
              InBand(k) =>
                  predictions[k] = IF DLess(step_log[k].raw, Tenth) THEN Tenth
                                   ELSE step_log[k].raw
        /\ (/\ Historical = ExampleHistory /\ Len(predictions) = 2
            /\ step_log[1] = [path |-> "predict", raw |-> <<1150>>]
            /\ step_log[2] = [path |-> "predict", raw |-> <<1300>>])
               => predictions = <<(<<1150>>), (<<1300>>)>>

C10_Witness ==
    /\ pc = "returned" /\ forecast_months = 2
    /\ Historical = ExampleHistory
    /\ step_log = <<[path |-> "predict", raw |-> <<1150>>],
                    [path |-> "predict", raw |-> <<1300>>]>>
    /\ forecast_result.predicted_values = <<(<<1150>>), (<<1300>>)>>

\* C11: on a non-fallback step with a previous recorded prediction prev, a
\* raw prediction below 0.8*prev is clamped to 0.98*prev and one above
\* 1.3*prev to 1.05*prev; the accepted value is max(clamped, 1.01*prev, 0.1).
C11_LaterStepClamp ==
    pc \in {"loop", "returned"} =>
        \A k \in 2..Len(predictions) :
            step_log[k].path = "predict" =>
                LET prev == predictions[k - 1]
                    raw == step_log[k].raw
                    clamped == IF DLess(raw, MulPct(prev, 80)) THEN MulPct(prev, 98)
                               ELSE IF DLess(MulPct(prev, 130), raw) THEN MulPct(prev, 105)
                               ELSE raw
                IN  /\ predictions[k] = DMax(DMax(clamped, MulPct(prev, 101)), Tenth)
                    /\ (prev = <<100>> /\ raw = <<200>> => predictions[k] = <<105>>)
                    /\ (prev = <<100>> /\ raw = <<50>> => predictions[k] = <<101>>)

C11_Witness ==
    /\ pc = "returned" /\ Len(predictions) >= 2
    /\ step_log[2].path = "predict"
    /\ predictions[1] = <<100>> /\ step_log[2].raw = <<200>>
    /\ predictions[2] = <<105>>

\* C12: a request with horizon < 1 (0 or negative) fails with an error
\* instead of returning a result.
C12_NonPositiveHorizonFails ==
    (ValidRequest /\ forecast_months < 1) => pc # "returned"

C14_HistoryUntouched == [][county_data' = county_data]_vars

C14_Witness ==
    /\ pc = "returned"
    /\ Len(predictions) >= 1
    /\ "predict" \in PathsTaken
    /\ Len(current_ev_totals) > Len(Historical)
    /\ Len(get_county_info(county_name, county_data).dates) = Len(Historical)

\* steps of the call at which model.predict was invoked
Invocations == {k \in 1..Len(step_log) : step_log[k].path \in {"predict", "failed"}}

\* C17: the regressor is invoked at most once per step, in step order, a
\* failed invocation closes its step (no retry), and with a history of at
\* least 3 points and no failure it is invoked exactly `horizon` times.
C17_OneInvocationPerStep ==
    pc \in {"loop", "returned"} =>
        /\ Len(step_log) = month_ahead - 1
        /\ Len(predictions) = Len(step_log)
        /\ Invocations \subseteq 1..forecast_months
        /\ (pc = "returned" /\ ValidRequest /\ forecast_months >= 1
                /\ "failed" \notin PathsTaken)
              => Invocations = 1..forecast_months

C17_Witness ==
    /\ pc = "returned" /\ ValidRequest
    /\ forecast_months = MaxHorizon
    /\ step_log[1].path = "failed"
    /\ step_log[MaxHorizon].path = "predict"
    /\ Invocations = 1..MaxHorizon

\* model.feature_names_in_: the columns the regressor was fit on
feature_names_in_ ==
    <<"months_since_start", "county_encoded", "ev_total_lag1", "ev_total_lag2",
      "ev_total_lag3", "ev_total_roll_mean_3", "ev_total_pct_change_1",
      "ev_total_pct_change_3", "ev_growth_slope">>

ColumnNames(row) == [i \in 1..Len(row) |-> row[i].name]

\* C18: every feature row handed to the regressor, at every step of the loop
\* and for every series, and every row returned by prepare_model_input, has
\* the same 9 named columns in the same order.
C18_FeatureSchema ==
    /\ (/\ pc \in {"loop", "returned"} /\ Len(step_log) > 0
        /\ Last(step_log).path \in {"predict", "failed"})
          => ColumnNames(model_input) = feature_names_in_
    /\ \A name \in Counties, months \in 1..MaxHorizon, csv_ok \in BOOLEAN :
          ~PrepareModelInputRaises(name, county_data) =>
              ColumnNames(prepare_model_input(name, county_data, months, csv_ok))
                  = feature_names_in_

C18_Witness ==
    /\ pc = "returned" /\ Len(step_log) = 2
    /\ step_log[1].path = "predict" /\ step_log[2].path = "predict"
    /\ ColumnNames(model_input) = feature_names_in_
    /\ model_input[1].value = base_months + 2
    /\ model_input[3].value = predictions[1]
    /\ ~PrepareModelInputRaises(county_name, county_data)

\* whole calendar months from one date to another, read off the month
\* numbering alone
MonthsApart(from, to) == MonthIndexFrom(to, 0) - MonthIndexFrom(from, 0)

\* the step just taken built a feature row
RowBuilt ==
    /\ ValidRequest
    /\ pc \in {"loop", "returned"}
    /\ Len(step_log) >= 1
    /\ Last(step_log).path \in {"predict", "failed"}

\* C19 as stated: at step k the months_since_start feature is k plus the
\* calendar months from the earliest date of the data set to the last
\* historical date.
C19_FromDatasetEarliest ==
    RowBuilt =>
        model_input[1].value =
            MonthsApart(EarliestDate, LastHistoricalDate) + Len(step_log)

\* C19 amended: at step k the months_since_start feature is base_months + k,
\* where base_months is the number of calendar months (day of month ignored)
\* from the start date to the last historical date, and the start date is
\* the earliest date of the data set or, when the data file cannot be read,
\* 2018-01-01; the feature grows by exactly 1 per step, also after a step
\* that took the fallback.
C19_MonthsSinceStart ==
    [][(RowBuilt' /\ Len(step_log') = Len(step_log) + 1) =>
          /\ model_input'[1].value = base_months' + Len(step_log')
          /\ base_months' \in {MonthsApart(EarliestDate, LastHistoricalDate'),
                               MonthsApart(0, LastHistoricalDate')}
          /\ Len(step_log) >= 1 =>
                 model_input'[1].value = model_input[1].value + 1]_vars

\* the second step fed the regressor after the first took the fallback, on
\* dates whose distance in 30-day spans is not their distance in months
C19_Witness ==
    /\ RowBuilt
    /\ Len(step_log) = 2
    /\ step_log[1].path = "failed"
    /\ step_log[2].path = "predict"
    /\ (LastHistoricalDate - EarliestDate) \div 30 # base_months
    /\ model_input[1].value = base_months + 2

\* C20: in the returned result of a horizon of at least 1, total_growth is
\* the last predicted value minus the last value of the caller's history,
\* avg_monthly_growth is total_growth / horizon, and growth_percentage is
\* total_growth * 100 / last historical value when that value is above 0
\* and 0 otherwise.
C20_GrowthMetrics ==
    (pc = "returned" /\ forecast_months >= 1) =>
        LET r == forecast_result
            total == DSub(Last(r.predicted_values), LastHistorical)
        IN  /\ r.latest_historical_value = LastHistorical
            /\ r.total_growth = total
            /\ r.avg_monthly_growth.num = total
            /\ r.avg_monthly_growth.den = forecast_months
            /\ IF DLess(<<0>>, LastHistorical)
               THEN /\ r.growth_percentage.num = DTimes(total, 100)
                    /\ r.growth_percentage.den = LastHistorical
               ELSE r.growth_percentage.num = <<0>>

\* a returned forecast of 2 regressor steps whose working series no longer
\* ends in the last historical value 100 and whose growth is not 0
C20_Witness ==
    /\ pc = "returned"
    /\ forecast_months = 2
    /\ step_log[2].path = "predict"
    /\ LastHistorical = <<100>>
    /\ Last(current_ev_totals) # LastHistorical
    /\ forecast_result.total_growth # <<0>>
    /\ forecast_result.growth_percentage.den = <<100>>

\* ---- claims about calls in flight together (SpecTwo)
\* a result without its generation timestamp
Untimed(r) == [r EXCEPT !.prediction_date = 0]

\* the two calls were given the same inputs: region, horizon, regressor and,
\* the data being shared, the same history and the same start date read
\* from the data file
SameInputs ==
    /\ county_name[1] = county_name[2]
    /\ forecast_months[1] = forecast_months[2]
    /\ model[1] = model[2]
    /\ base_months[1] = base_months[2]

\* the regressor answered as a function of its input: whenever it was given
\* the same row twice, by one call or by both, it gave the same outcome
Deterministic ==
    \A p, q \in Procs :
        \A i \in 1..Len(step_log[p]), j \in 1..Len(step_log[q]) :
            (/\ step_log[p][i].input # NoInput
             /\ step_log[p][i].input = step_log[q][j].input) =>
                /\ step_log[p][i].path = step_log[q][j].path
                /\ step_log[p][i].raw = step_log[q][j].raw

BothEnded == \A p \in Procs : pc[p] \in {"returned", "raised"}

\* C15 as stated: two calls with identical inputs and a deterministic
\* regressor end with identical output.
C15_IdenticalOutput ==
    (BothEnded /\ SameInputs /\ Deterministic) =>
        /\ pc[1] = pc[2]
        /\ error[1] = error[2]
        /\ forecast_result[1] = forecast_result[2]

\* C15 amended: two calls with identical inputs and a deterministic
\* regressor end the same way (both return or both raise the same error) and
\* their results are identical in every field but the generation timestamp.
C15_IdenticalButTimestamp ==
    (BothEnded /\ SameInputs /\ Deterministic) =>
        /\ pc[1] = pc[2]
        /\ error[1] = error[2]
        /\ Untimed(forecast_result[1]) = Untimed(forecast_result[2])

\* both calls returned a 2-step forecast of the same county in which the
\* regressor answered once and failed once, stamped at different times
C15_Witness ==
    /\ BothEnded /\ SameInputs /\ Deterministic
    /\ pc[1] = "returned"
    /\ forecast_months[1] = 2
    /\ step_log[1][1].path = "predict"
    /\ step_log[1][2].path = "failed"
    /\ forecast_result[1].prediction_date # forecast_result[2].prediction_date

\* the values a call computes by itself from the history hist when the
\* regressor gives the outcomes of log, in order
RECURSIVE AlonePredictions(_, _, _, _)
AlonePredictions(hist, log, preds, series) ==
    IF Len(log) = 0 THEN preds
    ELSE LET answered == Len(series) >= 3 /\ Head(log).path = "predict"
             value == IF answered THEN Adjust(Head(log).raw, preds, series)
                      ELSE Fallback(preds, hist)
         IN  CHOOSE r \in {AlonePredictions(hist, Tail(log), x[1], x[2]) :
                              x \in {<<Append(preds, value),
                                       IF answered THEN Append(series, value)
                                       ELSE series>>}} : TRUE

\* the result of a call for the county name and the horizon months that
\* runs alone on data, is given the regressor outcomes of log and returns
\* at the time now
AloneResult(name, data, months, log, now) ==
    LET hd == get_county_info(name, data)
        latest == MaxDate(hd.dates)
    IN  ForecastResult(name, DInt(Last(hd.ev_totals)),
                       Len(hd.ev_totals), months, latest,
                       AlonePredictions(hd.ev_totals, log, <<>>,
                           [i \in 1..Len(hd.ev_totals) |-> DInt(hd.ev_totals[i])]),
                       [k \in 1..months |-> PredictionDate(latest, k)],
                       now)

\* call p holds what it holds at the same point when run alone: the values
\* recorded so far, then the result returned or the error raised
AsAlone(p) ==
    LET hd == get_county_info(county_name[p], county_data) IN
    /\ pc[p] \in {"loop", "returned"} =>
           predictions[p] =
               AlonePredictions(hd.ev_totals, step_log[p], <<>>,
                   [i \in 1..Len(hd.ev_totals) |-> DInt(hd.ev_totals[i])])
    /\ pc[p] = "returned" =>
           forecast_result[p] =
               AloneResult(county_name[p], county_data, forecast_months[p],
                           step_log[p], forecast_result[p].prediction_date)
    /\ pc[p] = "raised" =>
           error[p] = PreconditionError(county_name[p], model[p], county_data)

\* C16: however the steps of the calls interleave, the shared county data
\* stay as they were loaded, and each call holds at every step the values,
\* and in the end the result or the error, it holds when run alone with the
\* same answers of the regressor.
C16_Independent ==
    /\ county_data = SharedData
    /\ \A p \in Procs : AsAlone(p)

\* two calls that overlapped (the second began while the first was in its
\* loop is one way to get here) returned 2-step forecasts of different
\* counties, each with an answer of the regressor
C16_Witness ==
    /\ pc[1] = "returned" /\ pc[2] = "returned"
    /\ county_name[1] = "King" /\ county_name[2] = "Pierce"
    /\ forecast_months[1] = 2 /\ forecast_months[2] = 2
    /\ step_log[1][2].path = "predict"
    /\ step_log[2][1].path = "predict"
    /\ forecast_result[1].predicted_values # forecast_result[2].predicted_values

\* ---- claims about the feature functions (SpecFeat)
\* the history the feature functions were applied to
Series == get_county_info("King", county_data).ev_totals

\* the result of the call of calculate_feature_engineering_values
FeaturesReturned == pc = "features"

\* C21: the feature engineerer raises and returns no values on a history of
\* fewer than 3 points, and returns its 7 values on every history of 3 or
\* more points.
C21_FeatureEngineeringPrecondition ==
    /\ (pc = "raised" /\ error = "Error calculating feature engineering values") =>
           (Len(Series) < 3 /\ model_input = NoInput)
    /\ FeaturesReturned =>
           /\ Len(Series) >= 3
           /\ DOMAIN model_input =
                  {"ev_total_lag1", "ev_total_lag2", "ev_total_lag3",
                   "ev_total_roll_mean_3", "ev_total_pct_change_1",
                   "ev_total_pct_change_3", "ev_growth_slope"}

\* the call raised on a history of 2 points
C21_Witness ==
    /\ pc = "raised"
    /\ error = "Error calculating feature engineering values"
    /\ Len(Series) = 2

\* the first step of generate_forecast built its row
RowBuiltInline ==
    /\ pc = "loop"
    /\ Len(step_log) = 1
    /\ Last(step_log).path \in {"predict", "failed"}

\* C22: for a history v of n >= 3 points the feature engineerer returns
\* lag1 = v[n], lag2 = v[n-1], lag3 = v[n-2] (1-based) and roll_mean_3 =
\* (v[n-2] + v[n-1] + v[n]) / 3, and so does the row built in the loop.
C22_LagsAndRollingMean ==
    LET v == Series
        n == Len(v)
        third == Quot(DInt(v[n - 2] + v[n - 1] + v[n]), DInt(3))
    IN  /\ FeaturesReturned =>
               /\ model_input.ev_total_lag1 = DInt(v[n])
               /\ model_input.ev_total_lag2 = DInt(v[n - 1])
               /\ model_input.ev_total_lag3 = DInt(v[n - 2])
               /\ model_input.ev_total_roll_mean_3 = third
        /\ RowBuiltInline =>
               /\ model_input[3] = [name |-> "ev_total_lag1", value |-> DInt(v[n])]
               /\ model_input[4] = [name |-> "ev_total_lag2", value |-> DInt(v[n - 1])]
               /\ model_input[5] = [name |-> "ev_total_lag3", value |-> DInt(v[n - 2])]
               /\ model_input[6] = [name |-> "ev_total_roll_mean_3", value |-> third]

\* the features of a history of 5 points whose last 3 are not its first 3
C22_Witness ==
    /\ FeaturesReturned
    /\ Series = <<0, 0, 100, 150, 100>>
    /\ model_input.ev_total_lag1 = <<100>>
    /\ model_input.ev_total_lag2 = <<150>>
    /\ model_input.ev_total_lag3 = <<100>>
    /\ model_input.ev_total_roll_mean_3 = Quot(<<350>>, <<3>>)

\* the quotient (last - base) / base, or the value 0.0 when there is no base
\* value or it is 0
ExpectedChange(v, k) ==
    IF Len(v) > k /\ v[Len(v) - k] # 0
    THEN Quot(DInt(v[Len(v)] - v[Len(v) - k]), DInt(v[Len(v) - k]))
    ELSE ZeroQuot

\* C23: pct_change_1 is (v[n] - v[n-1]) / v[n-1] when v[n-1] # 0 and 0
\* otherwise, pct_change_3 is (v[n] - v[n-3]) / v[n-3] when n >= 4 and
\* v[n-3] # 0 and 0 otherwise (1-based), in the feature engineerer and in the
\* row built in the loop; no quotient has the divisor 0.
C23_PercentageChanges ==
    /\ FeaturesReturned =>
           /\ model_input.ev_total_pct_change_1 = ExpectedChange(Series, 1)
           /\ model_input.ev_total_pct_change_3 = ExpectedChange(Series, 3)
           /\ model_input.ev_total_pct_change_1.den # <<0>>
           /\ model_input.ev_total_pct_change_3.den # <<0>>
    /\ RowBuiltInline =>
           /\ model_input[7].value = ExpectedChange(Series, 1)
           /\ model_input[8].value = ExpectedChange(Series, 3)
           /\ model_input[7].value.den # <<0>>
           /\ model_input[8].value.den # <<0>>

\* the features of a history whose second last value is 0 and whose fourth
\* last value is not
C23_Witness ==
    /\ FeaturesReturned
    /\ Series = <<100, 150, 0, 150>>
    /\ model_input.ev_total_pct_change_1 = ZeroQuot
    /\ model_input.ev_total_pct_change_3 = Quot(<<50>>, <<100>>)

\* sums over the pairs i < j of the points of y (integers, 0-based index as
\* abscissa): of (j - i) * (y[j] - y[i]) and of (j - i)^2. Their quotient is
\* the slope of the least-squares line.
RECURSIVE PairSum(_, _, _)
PairSum(y, i, j) ==
    IF i >= Len(y) THEN 0
    ELSE IF j > Len(y) THEN PairSum(y, i + 1, i + 2)
    ELSE (j - i) * (y[j] - y[i]) + PairSum(y, i, j + 1)

RECURSIVE PairSquares(_, _, _)
PairSquares(m, i, j) ==
    IF i >= m THEN 0
    ELSE IF j > m THEN PairSquares(m, i + 1, i + 2)
    ELSE (j - i) * (j - i) + PairSquares(m, i, j + 1)

\* the least-squares slope of the last min(6, n) points of v
ExpectedSlope(v) ==
    LET m == IF Len(v) < 6 THEN Len(v) ELSE 6
        y == SubSeq(v, Len(v) - m + 1, Len(v))
    IN  Quot(DInt(PairSum(y, 1, 2)), DInt(PairSquares(m, 1, 2)))

\* C24: growth_slope is the least-squares slope of the values against the
\* 0-based index over the last min(6, n) points, in the feature engineerer
\* and in the row built in the loop; points before the last 6 do not enter.
C24_GrowthSlope ==
    /\ FeaturesReturned => model_input.ev_growth_slope = ExpectedSlope(Series)
    /\ RowBuiltInline => model_input[9].value = ExpectedSlope(Series)

\* the features of a history of 7 points whose first point lies off the
\* line through the last 6: the slope is 1500/105, that of the last 6
C24_Witness ==
    /\ FeaturesReturned
    /\ Series = <<150, 0, 0, 0, 0, 0, 100>>
    /\ model_input.ev_growth_slope = Quot(<<1500>>, <<105>>)

\* C28: for every history of at least 3 points the row built by
\* generate_forecast at step 1 is, column by column, the row returned by
\* prepare_model_input(county, county_data, 1) when both read the start
\* date the same way, and prepare_model_input does not raise.
C28_ImplementationsAgree ==
    RowBuiltInline =>
        /\ ~PrepareModelInputRaises(county_name, county_data)
        /\ \E csv_ok \in BOOLEAN :
              /\ base_months = BaseMonths(latest_date,
                                          IF csv_ok THEN EarliestDate ELSE 0)
              /\ model_input = prepare_model_input(county_name, county_data,
                                                   1, csv_ok)

\* step 1 built its row from a history of 7 points with a zero in it
C28_Witness ==
    /\ RowBuiltInline
    /\ Series = <<100, 0, 150, 100, 0, 100, 150>>
    /\ model_input[8].value = Quot(<<50>>, <<100>>)
    /\ model_input = prepare_model_input("King", county_data, 1, TRUE)

\* ---- further claims about the forecast loop (Spec)
\* step 1 of the call took the regressor's answer
FirstStepAnswered ==
    /\ ValidRequest
    /\ Len(step_log) >= 1
    /\ step_log[1].path = "predict"

\* C25 as stated: the first prediction recorded from an answer of the
\* regressor lies between 0.7 and 1.5 times the last historical value cur,
\* for every cur >= 0.
C25_FirstStepBand ==
    FirstStepAnswered =>
        /\ DLeq(MulPct(LastHistorical, 70), predictions[1])
        /\ DLeq(predictions[1], MulPct(LastHistorical, 150))

\* C25 amended: the first prediction recorded from an answer of the
\* regressor lies between 0.7 and 1.5 times the last historical value cur
\* when cur >= 1; when cur = 0 it is the hard floor 0.1.
C25_FirstStepBandAboveFloor ==
    FirstStepAnswered =>
        IF DLeq(<<1>>, LastHistorical)
        THEN /\ DLeq(MulPct(LastHistorical, 70), predictions[1])
             /\ DLeq(predictions[1], MulPct(LastHistorical, 150))
        ELSE predictions[1] = Tenth

\* a raw output of 13 times the last historical value 100 was recorded as 110
C25_Witness ==
    /\ FirstStepAnswered
    /\ LastHistorical = <<100>>
    /\ step_log[1].raw = <<1300>>
    /\ predictions[1] = <<110>>

\* the call in progress (or just ended) passed every check made before the
\* loop, whatever the length of its history
PastChecks ==
    /\ pc \in {"loop", "returned"}
    /\ model
    /\ CountyFound(county_name, county_data)
    /\ get_county_encoding(county_name) # -1

\* C26: when the last historical value is at least 1, every recorded
\* prediction after the first is between 1.01 and 1.3 times the one recorded
\* before it, whether it came from the regressor or from the fallback: the
\* sequence is strictly increasing and no value is 0.98 times its
\* predecessor.
C26_LaterStepsGrow ==
    (PastChecks /\ DLeq(<<1>>, LastHistorical)) =>
        \A k \in 2..Len(predictions) :
            /\ DLeq(MulPct(predictions[k - 1], 101), predictions[k])
            /\ DLeq(predictions[k], MulPct(predictions[k - 1], 130))
            /\ DLess(predictions[k - 1], predictions[k])
            /\ predictions[k] # MulPct(predictions[k - 1], 98)

\* after a first value of 110 the regressor answered 50, below 0.8 * 110:
\* the value recorded is 1.01 * 110, not 0.98 * 110
C26_Witness ==
    /\ PastChecks
    /\ LastHistorical = <<100>>
    /\ Len(predictions) = 2
    /\ predictions[1] = <<110>>
    /\ step_log[2] = [path |-> "predict", raw |-> <<50>>]
    /\ predictions[2] = <<111, 10>>

\* C27: a call with model and known county on a history of 1 or 2 points
\* does not raise and never invokes the regressor: every step takes the
\* fallback, the first value is 1.01 times the last historical value, each
\* later one 1.02 times its predecessor, and the result holds horizon values.
C27_ShortHistoryFallback ==
    (/\ pc # "idle" /\ model
     /\ CountyFound(county_name, county_data)
     /\ get_county_encoding(county_name) # -1
     /\ Len(Historical) \in {1, 2}
     /\ forecast_months >= 1) =>
        /\ pc \in {"loop", "returned"}
        /\ Invocations = {}
        /\ \A k \in 1..Len(step_log) : step_log[k].path = "insufficient"
        /\ Len(predictions) = Len(step_log)
        /\ \A k \in 1..Len(predictions) :
              predictions[k] = IF k = 1 THEN MulPct(LastHistorical, 101)
                               ELSE MulPct(predictions[k - 1], 102)
        /\ pc = "returned" =>
              /\ Len(forecast_result.predicted_values) = forecast_months
              /\ forecast_result.predicted_values = predictions

\* a 2-step forecast returned from a history of 2 points ending in 100
C27_Witness ==
    /\ pc = "returned"
    /\ model
    /\ county_name = "King"
    /\ Len(Historical) = 2
    /\ forecast_months = 2
    /\ forecast_result.predicted_values = << <<101>>, <<103, 2>> >>

\* ---- claims about the session (SpecUI)
\* C29: safe_generate_forecast lets no exception through: what it hands to
\* main is the result generate_forecast returned, or None, and it is None
\* exactly when generate_forecast raised.
C29_NeverPropagates ==
    /\ safe_result.kind \in {"pending", "value", "None"}
    /\ ui_pc = "after_call" =>
           /\ pc \in {"returned", "raised"}
           /\ pc = "returned" =>
                  safe_result = [kind |-> "value", value |-> forecast_result]
           /\ pc = "raised" => safe_result.kind = "None"

\* generate_forecast raised for a county without encoding and the wrapper
\* gave None
C29_Witness ==
    /\ ui_pc = "after_call"
    /\ pc = "raised"
    /\ error = "Could not find encoding for county"
    /\ safe_result.kind = "None"

\* C30: over any sequence of reruns a forecast result is displayed only when
\* its county is the selected county, and at the end of a rerun with a
\* county selected and the model loaded st.session_state holds no result of
\* another county.
C30_OnlySelectedCounty ==
    /\ displayed # <<>> => displayed[1].county = selected_county
    /\ (ui_pc \in {"ready", "rerun"} /\ selected_county # "" /\ model) =>
           (HasResult(session_state) =>
               session_state["forecast_result"].county = selected_county)

\* a later rerun, without a click on Generate, shows the result the session
\* kept for the county that is still selected
C30_Witness ==
    /\ ui_pc = "ready"
    /\ model
    /\ selected_county = "King"
    /\ safe_result = NotCalled
    /\ HasResult(session_state)
    /\ displayed = <<session_state["forecast_result"]>>
    /\ displayed[1].county = "King"

====
